---- MODULE Spec2Model ----
(***************************************************************************)
(* A model of safaribooks-rs: the filename sanitizer, the EPUB skeleton    *)
(* planner and materializer (src/src/epub.rs), the cookie store            *)
(* (src/src/cookies.rs), the login check (src/src/orly.rs) and the         *)
(* orchestration in main (src/src/main.rs).                                *)
(*                                                                         *)
(* A Rust `char` is modelled by its Unicode code point (a natural number), *)
(* a `String` seen through `.chars()` by a sequence of code points, and a  *)
(* `str` seen through byte offsets by the sequence of its UTF-8 bytes.     *)
(***************************************************************************)
EXTENDS Naturals, Sequences, FiniteSets

\* ------------------------------------------------------------------ bounds
\* Longest input handed to sanitize_filename in SpecSanitize.
MaxInputLen == 4

\* Longest tail after the run of 'a' of a title in SpecPlan.
MaxTail == 2

\* Largest of the small byte budgets tried in SpecPlan.
MaxSmallBudget == 5

\* Longest list of cookie entries in cookies.json.
MaxCookies == 2

\* --------------------------------------------------------------- characters
\* char::is_control: general category Cc, U+0000..U+001F and U+007F..U+009F.
IsControl(c) == (c <= 31) \/ (c >= 127 /\ c <= 159)

\* char::is_whitespace: the code points with the White_Space property.
IsWhitespace(c) ==
    \/ (c >= 9 /\ c <= 13)
    \/ c \in {32, 133, 160, 5760, 8232, 8233, 8239, 8287, 12288}
    \/ (c >= 8192 /\ c <= 8202)

\* const ILLEGAL: < > : " / \ | ? *
ILLEGAL == {60, 62, 58, 34, 47, 92, 124, 63, 42}

\* The character pushed in place of an illegal or control character: '_'.
Underscore == 95

\* The character pushed for a run of whitespace: ' '.
Space == 32

\* ---------------------------------------------------------------------- NFC
\* Canonical decomposition of one code point. Of the code points the model
\* uses, only U+226E NOT LESS-THAN (= U+003C U+0338) and U+226F NOT
\* GREATER-THAN (= U+003E U+0338) decompose.
Decompose(c) ==
    IF c = 8814 THEN <<60, 824>>
    ELSE IF c = 8815 THEN <<62, 824>>
    ELSE <<c>>

\* The primary composite of a starter and a combining mark, 0 when none.
PrimaryComposite(a, b) ==
    IF a = 60 /\ b = 824 THEN 8814
    ELSE IF a = 62 /\ b = 824 THEN 8815
    ELSE 0

NfdStep(out, c) == out \o Decompose(c)

\* Canonical composition, left to right. U+0338 is the only combining mark
\* of the model, so a mark is unblocked exactly when it directly follows
\* the starter.
ComposeStep(out, c) ==
    IF Len(out) > 0 /\ PrimaryComposite(out[Len(out)], c) # 0
    THEN [out EXCEPT ![Len(out)] = PrimaryComposite(out[Len(out)], c)]
    ELSE Append(out, c)

\* ------------------------------------------------------- sanitize_filename
\* A plausible slip: the `else` of the replacement loop is lost, so the
\* offending character is pushed after its underscore.
ReplaceStepNoElse(cleaned, ch) ==
    IF IsControl(ch) \/ ch \in ILLEGAL
    THEN Append(Append(cleaned, Underscore), ch)
    ELSE Append(cleaned, ch)

\* A plausible slip, the one the doc comment describes ("Remove control
\* characters"): control characters are dropped rather than replaced.
ReplaceStepDropControl(cleaned, ch) ==
    IF IsControl(ch) THEN cleaned
    ELSE IF ch \in ILLEGAL THEN Append(cleaned, Underscore)
    ELSE Append(cleaned, ch)

\* The body of the first loop: a control or illegal character pushes '_',
\* any other character itself.
ReplaceStep(cleaned, ch) ==
    IF IsControl(ch) \/ ch \in ILLEGAL
    THEN Append(cleaned, Underscore)
    ELSE Append(cleaned, ch)

\* A plausible slip: `prev_was_whitespace = true` is lost, so every
\* whitespace character pushes its own space.
CollapseStepNoFlag(st, ch) ==
    IF IsWhitespace(ch)
    THEN IF ~st.prev_was_whitespace
         THEN [st EXCEPT !.cleaned = Append(@, Space)]
         ELSE st
    ELSE [cleaned |-> Append(st.cleaned, ch), prev_was_whitespace |-> FALSE]

\* The body of the second loop: the first whitespace character of a run
\* pushes one space, the others nothing.
CollapseStep(st, ch) ==
    IF IsWhitespace(ch)
    THEN IF ~st.prev_was_whitespace
         THEN [cleaned |-> Append(st.cleaned, Space), prev_was_whitespace |-> TRUE]
         ELSE st
    ELSE [cleaned |-> Append(st.cleaned, ch), prev_was_whitespace |-> FALSE]

\* -------------------------------------------------------------------- UTF-8
\* The UTF-8 bytes of one code point, as String::push stores it.
Utf8(c) ==
    IF c < 128 THEN <<c>>
    ELSE IF c < 2048 THEN <<192 + (c \div 64), 128 + (c % 64)>>
    ELSE IF c < 65536
         THEN <<224 + (c \div 4096), 128 + ((c \div 64) % 64), 128 + (c % 64)>>
         ELSE <<240 + (c \div 262144), 128 + ((c \div 4096) % 64),
                128 + ((c \div 64) % 64), 128 + (c % 64)>>

\* One more character stored at the end of a string's bytes.
EncodeStep(out, c) == out \o Utf8(c)

\* -------------------------------------------------------------- CookieStore
\* A map is a function from the set of its keys.
\* A plausible slip: an entry whose name is already there is skipped.
HashMapInsertKeepFirst(map, k, v) ==
    IF k \in DOMAIN map THEN map
    ELSE [x \in (DOMAIN map) \cup {k} |-> IF x = k THEN v ELSE map[x]]

\* HashMap::insert: the value under an existing key is overwritten.
HashMapInsert(map, k, v) ==
    [x \in (DOMAIN map) \cup {k} |-> IF x = k THEN v ELSE map[x]]

\* The body of `for e in list { map.insert(e.name, e.value); }`
InsertEntry(map, e) == HashMapInsert(map, e.name, e.value)

\* -------------------------------------------------------------------- loops
\* The width of a code point in UTF-8, and the byte offsets at which the
\* characters of a string start or end (used to state the claims).
Utf8Width(c) == IF c < 128 THEN 1 ELSE IF c < 2048 THEN 2 ELSE IF c < 65536 THEN 3 ELSE 4

OffsetStep(st, c) ==
    [at |-> st.at + Utf8Width(c), offs |-> st.offs \cup {st.at + Utf8Width(c)}]

\* The body of the loop named `loop`, run on state st and element x.
LoopBody(loop, st, x) ==
    CASE loop = "nfd"      -> NfdStep(st, x)
      [] loop = "compose"  -> ComposeStep(st, x)
      [] loop = "replace"  -> ReplaceStep(st, x)
      [] loop = "collapse" -> CollapseStep(st, x)
      [] loop = "encode"   -> EncodeStep(st, x)
      [] loop = "insert"   -> InsertEntry(st, x)
      [] loop = "offsets"  -> OffsetStep(st, x)

\* `for x in s { st = body(st, x) }` over s[lo..hi], from state st. The
\* range is halved rather than peeled so that a title of hundreds of
\* characters does not nest hundreds of evaluations; the elements are still
\* visited left to right, each once. The test `left = left` only makes the
\* state after the left half a value before the right half starts.
RECURSIVE ForEach(_, _, _, _, _)
ForEach(loop, s, lo, hi, st) ==
    IF lo > hi THEN st
    ELSE IF lo = hi THEN LoopBody(loop, st, s[lo])
    ELSE LET mid == (lo + hi) \div 2
             left == ForEach(loop, s, lo, mid, st)
         IN  IF left = left THEN ForEach(loop, s, mid + 1, hi, left) ELSE left

Offsets(s) == ForEach("offsets", s, 1, Len(s), [at |-> 0, offs |-> {0}]).offs

\* ------------------------------------------------------- whole functions
\* input.nfc().collect::<String>()
Nfc(s) ==
    LET nfd == ForEach("nfd", s, 1, Len(s), <<>>)
    IN  ForEach("compose", nfd, 1, Len(nfd), <<>>)

\* str::trim: the slice between the first and the last non-whitespace
\* character, empty when there is none.
Trim(s) ==
    LET keep == {i \in 1..Len(s) : ~IsWhitespace(s[i])}
    IN  IF keep = {} THEN <<>>
        ELSE LET first == CHOOSE i \in keep : \A j \in keep : i <= j
                 last  == CHOOSE i \in keep : \A j \in keep : j <= i
             IN  SubSeq(s, first, last)

sanitize_filename(input) ==
    LET s0 == Nfc(input)
        s1 == ForEach("replace", s0, 1, Len(s0), <<>>)
        s2 == ForEach("collapse", s1, 1, Len(s1),
                      [cleaned |-> <<>>, prev_was_whitespace |-> FALSE]).cleaned
    IN  Trim(s2)

\* The bytes of a string given by its characters.
Encode(s) == ForEach("encode", s, 1, Len(s), <<>>)


\* str::is_char_boundary: 0 and len are boundaries, an offset past len is
\* not, and an offset inside is one unless the byte there is a continuation
\* byte (0x80..0xBF).
is_char_boundary(s, index) ==
    IF index = 0 THEN TRUE
    ELSE IF index >= Len(s) THEN index = Len(s)
    ELSE ~(s[index + 1] >= 128 /\ s[index + 1] <= 191)

\* -------------------------------------------------- truncate_utf8_by_byte
\* The while loop: back up until the offset is a character boundary.
RECURSIVE BackUp(_, _)
BackUp(s, end) ==
    IF end > 0 /\ ~is_char_boundary(s, end) THEN BackUp(s, end - 1) ELSE end

\* A plausible slip: the slice is cut at max_bytes without backing up.
truncate_utf8_no_backup(s, max_bytes) ==
    IF Len(s) <= max_bytes THEN s ELSE SubSeq(s, 1, max_bytes)

\* s is the string's bytes; the result is a prefix of them.
truncate_utf8_by_byte(s, max_bytes) ==
    IF Len(s) <= max_bytes THEN s
    ELSE LET end == BackUp(s, max_bytes)
         IN  IF end = 0 THEN <<>> ELSE SubSeq(s, 1, end)

\* ------------------------------------------------------ EpubSkeleton::plan
\* const MAX_BYTES: usize = 255
MAX_BYTES == 255

\* usize::saturating_sub
saturating_sub(a, b) == IF a >= b THEN a - b ELSE 0

\* A plausible slip: the space and the two parentheses are not counted.
title_max_length_undecorated(bookid) == saturating_sub(MAX_BYTES, Len(bookid))

\* MAX_BYTES.saturating_sub(3 + bookid.len())
title_max_length(bookid) == saturating_sub(MAX_BYTES, 3 + Len(bookid))

\* The root directory's name (the last component of skeleton.root), in
\* bytes: title is the title's characters, bookid the book id's bytes.
root_name(title, bookid) ==
    LET clean_title == Encode(sanitize_filename(title))
    IN  IF Len(clean_title) # 0
        THEN truncate_utf8_by_byte(clean_title, title_max_length(bookid))
                 \o <<32, 40>> \o bookid \o <<41>>
        ELSE <<40>> \o bookid \o <<41>>

\* "META-INF"
META_INF == <<77, 69, 84, 65, 45, 73, 78, 70>>

\* "OEBPS"
OEBPS == <<79, 69, 66, 80, 83>>

\* The three paths of the skeleton, each as the sequence of its components
\* (byte strings) below base_books_dir.
plan(title, bookid) ==
    LET root_dir == <<root_name(title, bookid)>>
    IN  [root     |-> root_dir,
         meta_inf |-> Append(root_dir, META_INF),
         oebps    |-> Append(root_dir, OEBPS)]

\* CookieStore::from_value on a parsed JSON value: cj.shape is what the
\* untagged CookiesJson matched ("map", "list", or "other" when neither
\* variant matches).
from_value(cj) ==
    IF cj.shape = "map" THEN [ok |-> TRUE, map |-> cj.map]
    ELSE IF cj.shape = "list"
         THEN [ok |-> TRUE,
               map |-> ForEach("insert", cj.list, 1, Len(cj.list), <<>>)]
         ELSE [ok |-> FALSE, map |-> <<>>]

\* CookieStore::load_from: reading the file or parsing its JSON may fail
\* before from_value is reached.
load_from(file) ==
    IF file.state \in {"unreadable", "invalid_json"}
    THEN [ok |-> FALSE, map |-> <<>>]
    ELSE from_value(file)

\* String's Ord: byte-wise lexicographic order.
StrLess(a, b) ==
    \E i \in 1..(Len(a) + 1) :
        /\ i <= Len(b)
        /\ \A j \in 1..(i - 1) : a[j] = b[j]
        /\ (i = Len(a) + 1 \/ a[i] < b[i])

\* A plausible slip: b.cmp(a), the names in descending order.
SortedNamesDescending(map) ==
    LET names == DOMAIN map
        Rank(n) == Cardinality({m \in names : StrLess(n, m)}) + 1
    IN  [i \in 1..Cardinality(names) |-> CHOOSE n \in names : Rank(n) = i]

\* pairs.sort_by(|(a, _), (b, _)| a.cmp(b)): the names in ascending order.
SortedNames(map) ==
    LET names == DOMAIN map
        Rank(n) == Cardinality({m \in names : StrLess(m, n)}) + 1
    IN  [i \in 1..Cardinality(names) |-> CHOOSE n \in names : Rank(n) = i]

\* CookieStore::to_header_value: the sorted pairs, each formatted "{k}={v}",
\* joined by "; ".
to_header_value(map) ==
    LET names == SortedNames(map)
        Pair(i) == names[i] \o <<61>> \o map[names[i]]
        Joined[i \in 0..Len(names)] ==
            IF i = 0 THEN <<>>
            ELSE IF i = 1 THEN Pair(1)
            ELSE Joined[i - 1] \o <<59, 32>> \o Pair(i)
    IN  Joined[Len(names)]

\* ------------------------------------------------------------------- orly.rs
\* StatusCode::is_redirection
is_redirection(status) == status >= 300 /\ status <= 399

\* check_login on the outcome of the profile request: resp.sent is FALSE
\* when `send().await?` fails.
check_login(resp) ==
    IF ~resp.sent THEN "Err"
    ELSE IF is_redirection(resp.status) THEN "Ok(false)"
    ELSE IF resp.status = 200 THEN "Ok(true)"
    ELSE "Err"

\* fetch_book_info on the outcome of the book request: resp.json is FALSE
\* when the body of a 200 answer does not deserialize into BookInfo.
fetch_book_info(resp) ==
    IF ~resp.sent THEN [ok |-> FALSE, title |-> <<>>]
    ELSE IF resp.status = 200
         THEN IF resp.json THEN [ok |-> TRUE, title |-> resp.title]
              ELSE [ok |-> FALSE, title |-> <<>>]
         ELSE [ok |-> FALSE, title |-> <<>>]

\* --------------------------------------------------------------- filesystem
\* A disk below base_books_dir: the directories that exist (paths, each a
\* sequence of components; <<>> is base_books_dir itself) and the files
\* with their contents.
EmptyDisk == [dirs |-> {}, files |-> <<>>]

\* fs::create_dir_all(path), which creates the missing ancestors from the
\* top down and stops at the first failure: `made` is how many of
\* base_books_dir, ..., path it got through.
create_dir_all(disk, path, made) ==
    [ok   |-> made = Len(path) + 1,
     disk |-> [disk EXCEPT !.dirs = @ \cup {SubSeq(path, 1, k - 1) : k \in 1..made}]]

\* fs::write returning Ok: the file holds all of the contents.
AllWritten(contents) == [kind |-> "ok", written |-> Len(contents)]

\* What a call of fs::write may come to: all of the contents written, the
\* file not created, or write_all failing with `written` bytes in the file.
WriteOutcomes(contents) ==
    {AllWritten(contents),
     [kind |-> "create_failed", written |-> 0]}
    \cup {[kind |-> "write_failed", written |-> k] : k \in 0..(Len(contents) - 1)}

\* A plausible slip: the file opened with create_new(true), which refuses a
\* path that already exists.
fs_write_create_new(disk, path, contents, outcome) ==
    LET Put(c) == [x \in (DOMAIN disk.files) \cup {path} |->
                      IF x = path THEN c ELSE disk.files[x]]
        parent == SubSeq(path, 1, Len(path) - 1)
    IN  IF outcome.kind = "create_failed" \/ parent \notin disk.dirs
           \/ path \in DOMAIN disk.files
        THEN [ok |-> FALSE, disk |-> disk]
        ELSE IF outcome.kind = "write_failed"
             THEN [ok |-> FALSE,
                   disk |-> [disk EXCEPT
                                !.files = Put(SubSeq(contents, 1, outcome.written))]]
             ELSE [ok |-> TRUE, disk |-> [disk EXCEPT !.files = Put(contents)]]

\* fs::write(path, contents): File::create creates the file or truncates
\* the one that is there, then write_all fills it. When File::create fails
\* nothing changes; when write_all fails the file holds the bytes written
\* until then, a proper prefix of the contents.
fs_write(disk, path, contents, outcome) ==
    LET Put(c) == [x \in (DOMAIN disk.files) \cup {path} |->
                      IF x = path THEN c ELSE disk.files[x]]
        parent == SubSeq(path, 1, Len(path) - 1)
    IN  IF outcome.kind = "create_failed" \/ parent \notin disk.dirs
        THEN [ok |-> FALSE, disk |-> disk]
        ELSE IF outcome.kind = "write_failed"
             THEN [ok |-> FALSE,
                   disk |-> [disk EXCEPT
                                !.files = Put(SubSeq(contents, 1, outcome.written))]]
             ELSE [ok |-> TRUE, disk |-> [disk EXCEPT !.files = Put(contents)]]

\* A plausible slip: the payload with a line feed after it.
MIMETYPE_WITH_NEWLINE ==
    <<97, 112, 112, 108, 105, 99, 97, 116, 105, 111, 110, 47,
      101, 112, 117, 98, 43, 122, 105, 112, 10>>

\* b"application/epub+zip"
MIMETYPE_BYTES ==
    <<97, 112, 112, 108, 105, 99, 97, 116, 105, 111, 110, 47,
      101, 112, 117, 98, 43, 122, 105, 112>>

\* The raw string written to container.xml, as its 316 bytes: six lines, each
\* ended by a line feed, and the twelve spaces before the closing quote.
CONTAINER_XML ==
    <<
      60, 63, 120, 109, 108, 32, 118, 101, 114, 115, 105, 111, 110, 61, 34, 49,
      46, 48, 34, 32, 101, 110, 99, 111, 100, 105, 110, 103, 61, 34, 85, 84,
      70, 45, 56, 34, 63, 62, 10, 32, 32, 32, 32, 32, 32, 32, 32, 32,
      32, 32, 32, 60, 99, 111, 110, 116, 97, 105, 110, 101, 114, 32, 120, 109,
      108, 110, 115, 61, 34, 117, 114, 110, 58, 111, 97, 115, 105, 115, 58, 110,
      97, 109, 101, 115, 58, 116, 99, 58, 111, 112, 101, 110, 100, 111, 99, 117,
      109, 101, 110, 116, 58, 120, 109, 108, 110, 115, 58, 99, 111, 110, 116, 97,
      105, 110, 101, 114, 34, 32, 118, 101, 114, 115, 105, 111, 110, 61, 34, 49,
      46, 48, 34, 62, 10, 32, 32, 32, 32, 32, 32, 32, 32, 32, 32, 32,
      32, 60, 114, 111, 111, 116, 102, 105, 108, 101, 115, 62, 10, 32, 32, 32,
      32, 32, 32, 32, 32, 32, 32, 32, 32, 60, 114, 111, 111, 116, 102, 105,
      108, 101, 32, 102, 117, 108, 108, 45, 112, 97, 116, 104, 61, 34, 79, 69,
      66, 80, 83, 47, 99, 111, 110, 116, 101, 110, 116, 46, 111, 112, 102, 34,
      32, 109, 101, 100, 105, 97, 45, 116, 121, 112, 101, 61, 34, 97, 112, 112,
      108, 105, 99, 97, 116, 105, 111, 110, 47, 111, 101, 98, 112, 115, 45, 112,
      97, 99, 107, 97, 103, 101, 43, 120, 109, 108, 34, 47, 62, 10, 32, 32,
      32, 32, 32, 32, 32, 32, 32, 32, 32, 32, 60, 47, 114, 111, 111, 116,
      102, 105, 108, 101, 115, 62, 10, 32, 32, 32, 32, 32, 32, 32, 32, 32,
      32, 32, 32, 60, 47, 99, 111, 110, 116, 97, 105, 110, 101, 114, 62, 10,
      32, 32, 32, 32, 32, 32, 32, 32, 32, 32, 32, 32
    >>

\* "mimetype"
MIMETYPE_NAME == <<109, 105, 109, 101, 116, 121, 112, 101>>

\* "container.xml"
CONTAINER_NAME == <<99, 111, 110, 116, 97, 105, 110, 101, 114, 46, 120, 109, 108>>

\* A plausible slip: the two writes in the order the methods are declared.
MaterializeStepsContainerFirst ==
    <<"create_oebps", "create_meta_inf", "write_container_xml", "write_mimetype">>

\* The filesystem calls of the skeleton's creation: create_dirs (two
\* create_dir_all), then write_mimetype, then write_container_xml.
MaterializeSteps ==
    <<"create_oebps", "create_meta_inf", "write_mimetype", "write_container_xml">>

\* The path a step works on.
StepPath(skel, step) ==
    IF step = "create_oebps" THEN skel.oebps
    ELSE IF step = "create_meta_inf" THEN skel.meta_inf
    ELSE IF step = "write_mimetype" THEN Append(skel.root, MIMETYPE_NAME)
    ELSE Append(skel.meta_inf, CONTAINER_NAME)

\* The with_context message of a failed step.
StepContext(step) ==
    IF step \in {"create_oebps", "create_meta_inf"} THEN "Creating directory"
    ELSE "Writing file"

\* ------------------------------------------------- sanitizer specification
\* The characters inputs are drawn from: TAB (control and whitespace),
\* SPACE, '<' (illegal), '_', 'a', DEL (control), NO-BREAK SPACE
\* (whitespace, not control), U+0338 COMBINING LONG SOLIDUS OVERLAY and
\* U+226E NOT LESS-THAN.
SanAlphabet == {9, 32, 60, 95, 97, 127, 160, 824, 8814}

SeqsUpTo(S, n) == UNION {[1..k -> S] : k \in 0..n}

VARIABLES san_pc, san_in, san_out, san_again,
          plan_pc, plan_title, plan_bookid, plan_skel, trunc_max, trunc_out,
          pc, bookid, cwd, rust_log, fs_sound, left_behind, cookie_file, store,
          cookie_header, profile_resp, login, bookinfo, skeleton, disk, step,
          err, exited, exit_code, stages, outcome, applied

sanVars == <<san_pc, san_in, san_out, san_again>>

planVars == <<plan_pc, plan_title, plan_bookid, plan_skel, trunc_max, trunc_out>>

mainVars == <<pc, bookid, cwd, rust_log, fs_sound, left_behind, cookie_file,
              store, cookie_header, profile_resp, login, bookinfo, skeleton, disk,
              step, err, exited, exit_code, stages, outcome, applied>>

vars == <<sanVars, planVars, mainVars>>

\* The parts of the state a specification does not exercise rest here.
SanIdle ==
    /\ san_pc = "idle"
    /\ san_in = <<>>
    /\ san_out = <<>>
    /\ san_again = <<>>

PlanIdle ==
    /\ plan_pc = "idle"
    /\ plan_title = <<>>
    /\ plan_bookid = <<>>
    /\ plan_skel = [root |-> <<>>, meta_inf |-> <<>>, oebps |-> <<>>]
    /\ trunc_max = 0
    /\ trunc_out = <<>>

NoSkeleton == [root |-> <<>>, meta_inf |-> <<>>, oebps |-> <<>>]

NoResponse == [sent |-> FALSE, status |-> 0]

NoError == [context |-> "", path |-> <<>>]

\* main before its first statement, but for pc, bookid, cookie_file, disk and
\* the environment (cwd, rust_log, fs_sound, left_behind).
MainFresh ==
    /\ store = <<>>
    /\ cookie_header = <<>>
    /\ profile_resp = NoResponse
    /\ login = "none"
    /\ bookinfo = [ok |-> FALSE, title |-> <<>>]
    /\ skeleton = NoSkeleton
    /\ step = 1
    /\ err = NoError
    /\ exited = FALSE
    /\ exit_code = 0
    /\ stages = <<>>
    /\ outcome = <<>>
    /\ applied = <<>>

MainIdle ==
    /\ pc = "idle"
    /\ bookid = <<>>
    /\ cwd = "elsewhere"
    /\ rust_log = "error"
    /\ fs_sound = FALSE
    /\ left_behind = EmptyDisk
    /\ cookie_file = [state |-> "missing", shape |-> "other", map |-> <<>>, list |-> <<>>]
    /\ disk = EmptyDisk
    /\ MainFresh

SanInit ==
    /\ san_pc = "input"
    /\ san_in \in SeqsUpTo(SanAlphabet, MaxInputLen)
    /\ san_out = <<>>
    /\ san_again = <<>>
    /\ PlanIdle
    /\ MainIdle

\* sanitize_filename applied to the input.
Sanitize ==
    /\ san_pc = "input"
    /\ san_out' = sanitize_filename(san_in)
    /\ san_pc' = "sanitized"
    /\ UNCHANGED <<san_in, san_again, planVars, mainVars>>

\* sanitize_filename applied to its own result.
SanitizeAgain ==
    /\ san_pc = "sanitized"
    /\ san_again' = sanitize_filename(san_out)
    /\ san_pc' = "resanitized"
    /\ UNCHANGED <<san_in, san_out, planVars, mainVars>>

SanNext == Sanitize \/ SanitizeAgain

SpecSanitize == SanInit /\ [][SanNext]_vars

\* --------------------------------------------------- planner specification
\* Titles are a run of 'a' followed by a short tail over 'a', U+00DF (two
\* bytes), U+20AC (three bytes), U+1F600 (four bytes) and SPACE, so that the
\* byte budget falls before, inside and after multi-byte characters.
TailAlphabet == {97, 223, 8364, 128512, 32}

PadLens == {0, 236, 247, 248, 300}

PlanTitles ==
    {[i \in 1..n |-> 97] \o tail :
        n \in PadLens, tail \in SeqsUpTo(TailAlphabet, MaxTail)}

\* Book ids are digit strings "4242..." of these lengths; "42" is the one of
\* length 2.
BookIdLens == {1, 2, 13, 251, 252, 253, 300}

BookIds == {[i \in 1..n |-> IF i % 2 = 1 THEN 52 ELSE 50] : n \in BookIdLens}

\* Byte budgets handed to truncate_utf8_by_byte directly.
TruncBudgets == (0..MaxSmallBudget) \cup {239, 249, 250, 251, 252}

PlanInit ==
    /\ plan_pc = "input"
    /\ plan_title \in PlanTitles
    /\ plan_bookid = <<>>
    /\ plan_skel = [root |-> <<>>, meta_inf |-> <<>>, oebps |-> <<>>]
    /\ trunc_max = 0
    /\ trunc_out = <<>>
    /\ SanIdle
    /\ MainIdle

\* EpubSkeleton::plan(base, title, bookid)
Plan ==
    /\ plan_pc = "input"
    /\ \E id \in BookIds :
          /\ plan_bookid' = id
          /\ plan_skel' = plan(plan_title, id)
    /\ plan_pc' = "planned"
    /\ UNCHANGED <<plan_title, trunc_max, trunc_out, sanVars, mainVars>>

\* truncate_utf8_by_byte(title, max_bytes) on the title's bytes.
Truncate ==
    /\ plan_pc = "input"
    /\ \E max_bytes \in TruncBudgets :
          /\ trunc_max' = max_bytes
          /\ trunc_out' = truncate_utf8_by_byte(Encode(plan_title), max_bytes)
    /\ plan_pc' = "truncated"
    /\ UNCHANGED <<plan_title, plan_bookid, plan_skel, sanVars, mainVars>>

PlanNext == Plan \/ Truncate

SpecPlan == PlanInit /\ [][PlanNext]_vars

\* -------------------------------------------------------------------- main
\* Cookie names "B", "a", "ab" and values "1", "2".
CookieNames == {<<66>>, <<97>>, <<97, 98>>}

CookieValues == {<<49>>, <<50>>}

\* The entries a list is made of: a=1, a=2, B=1 and ab=2.
CookieEntries ==
    {[name |-> <<97>>, value |-> <<49>>], [name |-> <<97>>, value |-> <<50>>],
     [name |-> <<66>>, value |-> <<49>>], [name |-> <<97, 98>>, value |-> <<50>>]}

CookieMaps == UNION {[names -> CookieValues] : names \in SUBSET CookieNames}

\* What cookies.json may be: missing, unreadable, not JSON, JSON of neither
\* shape, a map, or a list of at most MaxCookies entries.
CookieFiles ==
    {[state |-> st, shape |-> "other", map |-> <<>>, list |-> <<>>] :
        st \in {"missing", "unreadable", "invalid_json", "json"}}
    \cup {[state |-> "json", shape |-> "map", map |-> m, list |-> <<>>] :
            m \in CookieMaps}
    \cup {[state |-> "json", shape |-> "list", map |-> <<>>, list |-> l] :
            l \in SeqsUpTo(CookieEntries, MaxCookies)}

\* The book id given on the command line: "42".
MainBookIds == {<<52, 50>>}

\* Titles the metadata may carry: "", " My  Book: Title! " and 300 times 'a'.
MainTitles ==
    {<<>>,
     <<32, 77, 121, 32, 32, 66, 111, 111, 107, 58, 32, 84, 105, 116, 108, 101, 33, 32>>,
     [i \in 1..300 |-> 97]}

\* What an HTTP request may come to: not sent (a network failure), or an
\* answer with one of these status codes.
Statuses == {200, 301, 302, 401, 403, 404, 500}

Responses ==
    {[sent |-> FALSE, status |-> 0]} \cup {[sent |-> TRUE, status |-> n] : n \in Statuses}

\* What the command line may be: a book id with or without --preserve-log,
\* --help, --version, no book id, or a flag clap does not know.
Argvs ==
    {[kind |-> "book", bookid |-> b, preserve_log |-> p] :
        b \in MainBookIds, p \in BOOLEAN}
    \cup {[kind |-> k, bookid |-> <<>>, preserve_log |-> FALSE] :
            k \in {"help", "version", "missing_bookid", "unknown_flag"}}

\* Args::parse(): the arguments, or the end of the process, with status 0
\* after the help or the version was printed and status 2 after a usage
\* error.
parse(argv) ==
    IF argv.kind = "book" THEN [ok |-> TRUE, exit_code |-> 0, bookid |-> argv.bookid]
    ELSE IF argv.kind \in {"help", "version"}
         THEN [ok |-> FALSE, exit_code |-> 0, bookid |-> <<>>]
         ELSE [ok |-> FALSE, exit_code |-> 2, bookid |-> <<>>]

\* "info_{book_id}.log"
LogName(book_id) == <<105, 110, 102, 111, 95>> \o book_id \o <<46, 108, 111, 103>>

\* The Books directory before the run: absent, or there and empty.
StartDisks == {EmptyDisk, [dirs |-> {<<>>}, files |-> <<>>]}

\* Where the run may be started from: the Books directory, when there is
\* one, or a directory outside it.
Cwds(d) == IF <<>> \in d.dirs THEN {"books", "elsewhere"} ELSE {"elsewhere"}

\* What a call into the filesystem may come to: any of `all` in general,
\* only `sound` in a run that finds the filesystem free of faults.
Outcomes(all, sound) == IF fs_sound THEN sound ELSE all

\* What RUST_LOG lets through (EnvFilter::from_default_env): nothing, ERROR
\* only, which is also the filter when RUST_LOG is not set, or INFO and up.
RustLogs == {"off", "error", "info"}

LevelEnabled(filter, level) ==
    filter = "info" \/ (filter = "error" /\ level = "ERROR")

\* A formatted message: the format string and the values put into it.
Msg(fmt, args) == [fmt |-> fmt, args |-> args]

\* The file layer installed by Display::new: an event the filter lets
\* through is appended to info_<bookid>.log (one line, less its timestamp).
\* The log is followed only where it lies in the Books directory.
log_event(d, level, msg) ==
    LET log == <<LogName(bookid)>>
    IN  IF cwd = "books" /\ log \in DOMAIN d.files /\ LevelEnabled(rust_log, level)
        THEN [d EXCEPT !.files[log] =
                 Append(@, [level |-> level, target |-> "safaribooks_rs::display",
                            msg |-> msg])]
        ELSE d

\* Display::info: println! and info!("{msg}")
info(d, msg) == log_event(d, "INFO", msg)

\* Display::error_and_exit, as far as the disk goes: eprintln! and
\* error!("{msg}"); the exit itself is in StageDone.
error_and_exit(d, msg) == log_event(d, "ERROR", msg)

\* The error CookieStore::load_from returns: from fs::read_to_string,
\* serde_json::from_str or serde_json::from_value.
load_from_error(file) ==
    IF file.state = "unreadable" THEN "read_to_string"
    ELSE IF file.state = "invalid_json" THEN "from_str"
    ELSE "data did not match any variant of untagged enum CookiesJson"

\* The error check_login returns: that of send(), or the bail! message.
check_login_error(resp) ==
    IF ~resp.sent THEN Msg("send", <<>>)
    ELSE Msg("Profile request returned unexpected status {}", <<resp.status>>)

\* The error fetch_book_info returns: that of send() or json(), or one of
\* the two bail! messages.
fetch_book_info_error(resp) ==
    IF ~resp.sent THEN Msg("send", <<>>)
    ELSE IF resp.status = 200 THEN Msg("json", <<>>)
    ELSE IF resp.status = 404
         THEN Msg("Book not found (HTTP 404). Please double-check the book ID provided",
                  <<>>)
         ELSE Msg("Got status: {}", <<resp.status>>)

Init ==
    /\ pc = "parse_args"
    /\ bookid = <<>>
    /\ cookie_file \in CookieFiles
    /\ disk \in StartDisks
    /\ cwd \in Cwds(disk)
    /\ rust_log \in RustLogs
    /\ fs_sound = FALSE
    /\ left_behind = EmptyDisk
    /\ MainFresh
    /\ SanIdle
    /\ PlanIdle

\* A plausible slip: `Ok(_) =>` where `Ok(true) =>` was meant.
LoginConfirmedAnyOk(result) == result \in {"Ok(true)", "Ok(false)"}

\* The arm of the match on check_login's result that lets main go on.
LoginConfirmed(result) == result = "Ok(true)"

\* A stage of main has run: it is logged with what it came to, and main goes
\* on to `next` or, through Display::error_and_exit, ends the process with
\* std::process::exit(1).
StageDone(stage, ok, next) ==
    /\ stages' = Append(stages, stage)
    /\ outcome' = Append(outcome, ok)
    /\ IF ok
       THEN /\ pc' = next
            /\ UNCHANGED <<exited, exit_code>>
       ELSE /\ pc' = "exited"
            /\ exited' = TRUE
            /\ exit_code' = 1

\* let args = Args::parse();
ParseArgs ==
    /\ pc = "parse_args"
    /\ \E argv \in Argvs :
          LET args == parse(argv)
          IN  /\ bookid' = args.bookid
              /\ IF args.ok
                 THEN /\ pc' = "display_new"
                      /\ UNCHANGED <<exited, exit_code>>
                 ELSE /\ pc' = "exited"
                      /\ exited' = TRUE
                      /\ exit_code' = args.exit_code
    /\ UNCHANGED <<cwd, rust_log, fs_sound, left_behind, cookie_file, store, cookie_header, profile_resp, login,
                   bookinfo, skeleton, disk, step, err, stages, outcome, applied,
                   sanVars, planVars>>

\* let mut ui = Display::new(&args.bookid): File::create makes or truncates
\* info_<bookid>.log in the current directory, and .expect panics (status
\* 101) when it cannot; then the subscriber is installed and the welcome
\* event logged.
DisplayNew ==
    /\ pc = "display_new"
    /\ \E created \in Outcomes(BOOLEAN, {TRUE}) :
          IF created
          THEN /\ disk' = IF cwd = "books"
                          THEN info(fs_write(disk, <<LogName(bookid)>>, <<>>,
                                             AllWritten(<<>>)).disk,
                                    Msg("** Welcome to SafariBooks (Rust) **", <<>>))
                          ELSE disk
               /\ pc' = "cookie_check"
               /\ UNCHANGED <<exited, exit_code>>
          ELSE /\ disk' = disk
               /\ pc' = "exited"
               /\ exited' = TRUE
               /\ exit_code' = 101
    /\ UNCHANGED <<bookid, cwd, rust_log, fs_sound, left_behind, cookie_file, store, cookie_header,
                   profile_resp, login, bookinfo, skeleton, step, err, stages,
                   outcome, applied, sanVars, planVars>>

\* if !cookies_path.exists() { ui.error_and_exit(..) }
CookieFileCheck ==
    /\ pc = "cookie_check"
    /\ LET ok == cookie_file.state # "missing"
       IN  /\ disk' = IF ok THEN disk
                      ELSE error_and_exit(disk,
                             Msg("cookies.json not found.\nThis version requires an existing authenticated session.",
                                 <<>>))
           /\ StageDone("cookie_check", ok, "load")
    /\ UNCHANGED <<bookid, cwd, rust_log, fs_sound, left_behind, cookie_file, store, cookie_header,
                   profile_resp, login, bookinfo, skeleton, step, err, applied,
                   sanVars, planVars>>

\* let store = match CookieStore::load_from(&cookies_path) { .. }
LoadCookies ==
    /\ pc = "load"
    /\ LET loaded == load_from(cookie_file)
       IN  /\ store' = loaded.map
           /\ disk' = IF loaded.ok THEN disk
                      ELSE error_and_exit(disk,
                             Msg("Failed to read cookies.json: {e}",
                                 <<load_from_error(cookie_file)>>))
           /\ StageDone("load", loaded.ok, "non_empty")
    /\ UNCHANGED <<bookid, cwd, rust_log, fs_sound, left_behind, cookie_file, cookie_header,
                   profile_resp, login, bookinfo, skeleton, step, err, applied,
                   sanVars, planVars>>

\* if store.is_empty() { ui.error_and_exit(..) }, then the loaded cookies'
\* names are reported.
NonEmptyCheck ==
    /\ pc = "non_empty"
    /\ LET ok == DOMAIN store # {}
       IN  /\ disk' = IF ok
                      THEN info(disk, Msg("Loaded {} cookies: {}",
                                          <<Cardinality(DOMAIN store), SortedNames(store)>>))
                      ELSE error_and_exit(disk,
                             Msg("cookies.json is valid JSON but contains no cookies.",
                                 <<>>))
           /\ StageDone("non_empty", ok, "client")
    /\ UNCHANGED <<bookid, cwd, rust_log, fs_sound, left_behind, cookie_file, store, cookie_header,
                   profile_resp, login, bookinfo, skeleton, step, err, applied,
                   sanVars, planVars>>

\* HttpClient::from_store(&store): the header is rendered, then the reqwest
\* client is built, which may fail.
BuildClient ==
    /\ pc = "client"
    /\ \E built \in BOOLEAN :
          /\ cookie_header' = IF built THEN to_header_value(store) ELSE <<>>
          /\ disk' = IF built
                     THEN info(disk,
                            Msg("HTTP client initialized with cookies (no requests performed).",
                                <<>>))
                     ELSE error_and_exit(disk,
                            Msg("Failed to build HTTP client: {e}", <<"build">>))
          /\ StageDone("client", built, "login")
    /\ UNCHANGED <<bookid, cwd, rust_log, fs_sound, left_behind, cookie_file, store, profile_resp, login,
                   bookinfo, skeleton, step, err, applied, sanVars, planVars>>

\* match check_login(&client).await { .. }
CheckLogin ==
    /\ pc = "login"
    /\ \E resp \in Responses :
          LET result == check_login(resp)
          IN  /\ profile_resp' = resp
              /\ login' = result
              /\ disk' = IF result = "Ok(true)"
                         THEN info(disk, Msg("Login confirmed...", <<>>))
                         ELSE IF result = "Ok(false)"
                         THEN error_and_exit(disk,
                                Msg("Logged out. Cookies could be stale or invalid.\nTry refreshing your cookies.json and trying again.",
                                    <<>>))
                         ELSE error_and_exit(disk,
                                Msg("Login check failed: {e}", <<check_login_error(resp)>>))
              /\ StageDone("login", LoginConfirmed(result), "fetch")
    /\ UNCHANGED <<bookid, cwd, rust_log, fs_sound, left_behind, cookie_file, store, cookie_header,
                   bookinfo, skeleton, step, err, applied, sanVars, planVars>>

\* ui.info("Retrieving book info..."); the request follows.
RetrievingBookInfo ==
    /\ pc = "fetch"
    /\ pc' = "fetch_await"
    /\ disk' = info(disk, Msg("Retrieving book info...", <<>>))
    /\ UNCHANGED <<bookid, cwd, rust_log, fs_sound, left_behind, cookie_file, store,
                   cookie_header, profile_resp, login, bookinfo, skeleton, step,
                   err, exited, exit_code, stages, outcome, applied, sanVars,
                   planVars>>

\* let bookinfo = match fetch_book_info(&client, &args.bookid).await { .. }
\* has returned, and the metadata is reported.
FetchBookInfo ==
    /\ pc = "fetch_await"
    /\ \E resp \in Responses, json \in BOOLEAN, title \in MainTitles :
          LET fetched == fetch_book_info([sent |-> resp.sent, status |-> resp.status,
                                          json |-> json, title |-> title])
          IN  /\ bookinfo' = fetched
              /\ disk' = IF fetched.ok
                         THEN info(disk, Msg("{:#?}", <<fetched.title>>))
                         ELSE error_and_exit(disk,
                                Msg("Failed to fetch book info: {}",
                                    <<fetch_book_info_error(resp)>>))
              /\ StageDone("fetch", fetched.ok, "plan")
    /\ UNCHANGED <<bookid, cwd, rust_log, fs_sound, left_behind, cookie_file, store,
                   cookie_header, profile_resp, login, skeleton, step, err,
                   applied, sanVars, planVars>>

\* let skeleton = EpubSkeleton::plan(&config::books_root(), &bookinfo.title, &args.bookid);
\* ui.set_output_dir(skeleton.root.clone());
PlanSkeleton ==
    /\ pc = "plan"
    /\ skeleton' = plan(bookinfo.title, bookid)
    /\ disk' = info(disk, Msg("Output directory:\n {}",
                              <<plan(bookinfo.title, bookid).root>>))
    /\ StageDone("plan", TRUE, "materialize")
    /\ UNCHANGED <<bookid, cwd, rust_log, fs_sound, left_behind, cookie_file, store, cookie_header,
                   profile_resp, login, bookinfo, step, err, applied, sanVars,
                   planVars>>

\* One filesystem call of the closure in main has returned: on success the
\* next call follows, and after the last one main goes on; on failure `?`
\* returns the error with its context and main reports it and ends the
\* process.
StepDone(name, path, res) ==
    IF res.ok
    THEN /\ disk' = res.disk
         /\ applied' = Append(applied, name)
         /\ err' = err
         /\ IF step = Len(MaterializeSteps)
            THEN /\ step' = step
                 /\ StageDone("materialize", TRUE, "finish")
            ELSE /\ step' = step + 1
                 /\ UNCHANGED <<pc, exited, exit_code, stages, outcome>>
    ELSE /\ disk' = error_and_exit(res.disk,
                      Msg("EPUB skeleton creation failed: {e}",
                          <<[context |-> StepContext(name), path |-> path]>>))
         /\ applied' = applied
         /\ step' = step
         /\ err' = [context |-> StepContext(name), path |-> path]
         /\ StageDone("materialize", FALSE, "finish")

\* fs::create_dir_all(&self.oebps) and fs::create_dir_all(&self.meta_inf)
CreateDir ==
    /\ pc = "materialize"
    /\ MaterializeSteps[step] \in {"create_oebps", "create_meta_inf"}
    /\ LET name == MaterializeSteps[step]
           path == StepPath(skeleton, name)
       IN  \E made \in Outcomes(0..(Len(path) + 1), {Len(path) + 1}) :
              StepDone(name, path, create_dir_all(disk, path, made))
    /\ UNCHANGED <<bookid, cwd, rust_log, fs_sound, left_behind, cookie_file, store, cookie_header,
                   profile_resp, login, bookinfo, skeleton, sanVars, planVars>>

\* EpubSkeleton::write_mimetype
WriteMimetype ==
    /\ pc = "materialize"
    /\ MaterializeSteps[step] = "write_mimetype"
    /\ LET path == StepPath(skeleton, "write_mimetype")
       IN  \E o \in Outcomes(WriteOutcomes(MIMETYPE_BYTES), {AllWritten(MIMETYPE_BYTES)}) :
              StepDone("write_mimetype", path, fs_write(disk, path, MIMETYPE_BYTES, o))
    /\ UNCHANGED <<bookid, cwd, rust_log, fs_sound, left_behind, cookie_file, store, cookie_header,
                   profile_resp, login, bookinfo, skeleton, sanVars, planVars>>

\* EpubSkeleton::write_container_xml
WriteContainerXml ==
    /\ pc = "materialize"
    /\ MaterializeSteps[step] = "write_container_xml"
    /\ LET path == StepPath(skeleton, "write_container_xml")
       IN  \E o \in Outcomes(WriteOutcomes(CONTAINER_XML), {AllWritten(CONTAINER_XML)}) :
              StepDone("write_container_xml", path, fs_write(disk, path, CONTAINER_XML, o))
    /\ UNCHANGED <<bookid, cwd, rust_log, fs_sound, left_behind, cookie_file, store, cookie_header,
                   profile_resp, login, bookinfo, skeleton, sanVars, planVars>>

\* The three closing reports, and main returns: the process ends with
\* status 0.
Finish ==
    /\ pc = "finish"
    /\ pc' = "exited"
    /\ exited' = TRUE
    /\ exit_code' = 0
    /\ disk' = info(info(info(disk,
                  Msg("EPUB skeleton ready (mimetype + META-INF/container.xml + OEBPS/).", <<>>)),
                  Msg("Initialization complete.", <<>>)),
                  Msg("No network operations performed in this version.", <<>>))
    /\ UNCHANGED <<bookid, cwd, rust_log, fs_sound, left_behind, cookie_file, store, cookie_header,
                   profile_resp, login, bookinfo, skeleton, step, err, stages,
                   outcome, applied, sanVars, planVars>>

Next ==
    \/ ParseArgs
    \/ DisplayNew
    \/ CookieFileCheck
    \/ LoadCookies
    \/ NonEmptyCheck
    \/ BuildClient
    \/ CheckLogin
    \/ RetrievingBookInfo
    \/ FetchBookInfo
    \/ PlanSkeleton
    \/ CreateDir
    \/ WriteMimetype
    \/ WriteContainerXml
    \/ Finish

Spec == Init /\ [][Next]_vars

\* ------------------------------------------------- materialization, re-run
\* The environments a run is started in here: outside the Books directory
\* with RUST_LOG unset, or, when there is a Books directory, inside it with
\* RUST_LOG=info.
StartEnvs(d) ==
    {[cwd |-> "elsewhere", rust_log |-> "error"]}
    \cup (IF <<>> \in d.dirs
          THEN {[cwd |-> "books", rust_log |-> "info"]}
          ELSE {})

\* main at its entry, cookies.json being {"a": "1"}; the filesystem may fail
\* during this run.
RerunInit ==
    /\ pc = "parse_args"
    /\ bookid = <<>>
    /\ cookie_file = [state |-> "json", shape |-> "map",
                      map |-> [n \in {<<97>>} |-> <<49>>], list |-> <<>>]
    /\ disk \in StartDisks
    /\ \E env \in StartEnvs(disk) : cwd = env.cwd /\ rust_log = env.rust_log
    /\ fs_sound = FALSE
    /\ left_behind = EmptyDisk
    /\ MainFresh
    /\ SanIdle
    /\ PlanIdle

\* What the disk may hold when the process is killed at a step: the step
\* has not begun, or create_dir_all has made some of the directories, or
\* fs::write has created the file and written some of its contents.
CrashDisks(d, name, path) ==
    IF name \in {"create_oebps", "create_meta_inf"}
    THEN {create_dir_all(d, path, made).disk : made \in 0..(Len(path) + 1)}
    ELSE LET contents == IF name = "write_mimetype" THEN MIMETYPE_BYTES
                         ELSE CONTAINER_XML
         IN  {d} \cup {fs_write(d, path, contents, o).disk :
                          o \in WriteOutcomes(contents)}

\* The process is killed while the skeleton is being created.
Crash ==
    /\ pc = "materialize"
    /\ ~fs_sound
    /\ LET name == MaterializeSteps[step]
       IN  \E d \in CrashDisks(disk, name, StepPath(skeleton, name)) : disk' = d
    /\ pc' = "crashed"
    /\ UNCHANGED <<bookid, cwd, rust_log, fs_sound, left_behind, cookie_file, store,
                   cookie_header, profile_resp, login, bookinfo, skeleton, step,
                   err, exited, exit_code, stages, outcome, applied, sanVars,
                   planVars>>

\* After a run that got to the skeleton's creation and ended there or was
\* killed there, the program is started again: a new process at the entry
\* of main, in an environment of its own, with nothing of the first run but
\* the disk as that run left it (kept in left_behind) and cookies.json. The
\* filesystem is free of faults from here on.
Restart ==
    /\ ~fs_sound
    /\ \/ pc = "crashed"
       \/ pc = "exited" /\ Len(stages) = 8
    /\ fs_sound' = TRUE
    /\ left_behind' = disk
    /\ \E env \in StartEnvs(disk) : cwd' = env.cwd /\ rust_log' = env.rust_log
    /\ pc' = "parse_args"
    /\ bookid' = <<>>
    /\ store' = <<>>
    /\ cookie_header' = <<>>
    /\ profile_resp' = NoResponse
    /\ login' = "none"
    /\ bookinfo' = [ok |-> FALSE, title |-> <<>>]
    /\ skeleton' = NoSkeleton
    /\ step' = 1
    /\ err' = NoError
    /\ exited' = FALSE
    /\ exit_code' = 0
    /\ stages' = <<>>
    /\ outcome' = <<>>
    /\ applied' = <<>>
    /\ UNCHANGED <<cookie_file, disk, sanVars, planVars>>

RerunNext ==
    \/ ParseArgs
    \/ DisplayNew
    \/ CookieFileCheck
    \/ LoadCookies
    \/ NonEmptyCheck
    \/ BuildClient
    \/ CheckLogin
    \/ RetrievingBookInfo
    \/ FetchBookInfo
    \/ PlanSkeleton
    \/ CreateDir
    \/ WriteMimetype
    \/ WriteContainerXml
    \/ Finish
    \/ Crash
    \/ Restart

SpecRerun == RerunInit /\ [][RerunNext]_vars

\* ---------------------------------------------------- claims: the sanitizer
\* A string with every control or illegal character replaced, position by
\* position, by one underscore.
Underscored(s) ==
    [i \in 1..Len(s) |-> IF IsControl(s[i]) \/ s[i] \in ILLEGAL THEN Underscore ELSE s[i]]

NotWhitespace(c) == ~IsWhitespace(c)

NonWhitespace(s) == SelectSeq(s, NotWhitespace)

\* The maximal runs of non-whitespace characters of s, in order.
Words(s) ==
    LET starts == {i \in 1..Len(s) :
                      ~IsWhitespace(s[i]) /\ (i = 1 \/ IsWhitespace(s[i - 1]))}
        EndOf(i) == CHOOSE j \in i..Len(s) :
                      /\ \A k \in i..j : ~IsWhitespace(s[k])
                      /\ (j = Len(s) \/ IsWhitespace(s[j + 1]))
        Rank(i) == Cardinality({k \in starts : k <= i})
    IN  [n \in 1..Cardinality(starts) |->
            LET i == CHOOSE k \in starts : Rank(k) = n IN SubSeq(s, i, EndOf(i))]

\* The number of maximal whitespace runs of s.
WhitespaceRuns(s) ==
    Cardinality({i \in 1..Len(s) :
                    IsWhitespace(s[i]) /\ (i = 1 \/ ~IsWhitespace(s[i - 1]))})

Count(s, c) == Cardinality({i \in 1..Len(s) : s[i] = c})

NoEdgeOrDoubleWhitespace(s) ==
    /\ Len(s) > 0 => (~IsWhitespace(s[1]) /\ ~IsWhitespace(s[Len(s)]))
    /\ \A i \in 1..Len(s) : IsWhitespace(s[i]) => s[i] = Space
    /\ \A i \in 2..Len(s) : ~(IsWhitespace(s[i - 1]) /\ IsWhitespace(s[i]))

\* C3: sanitize_filename is idempotent: sanitizing a sanitized string
\* returns it unchanged.
C3_Idempotent ==
    san_pc = "resanitized" => san_again = san_out

\* C3 witness: a second pass was made over a non-empty result that the
\* first pass had to change.
C3_Witness ==
    /\ san_pc = "resanitized"
    /\ Len(san_out) > 0
    /\ san_out # san_in
    /\ \E i \in 1..Len(san_in) : IsControl(san_in[i]) \/ san_in[i] \in ILLEGAL
    /\ \E i \in 1..Len(san_in) : IsWhitespace(san_in[i])

\* C4 as stated: the result holds no illegal and no control character, and
\* each illegal or control character OF THE INPUT stands in the result as
\* one underscore (whitespace set aside), so that an input of only such
\* characters gives that many underscores.
C4_AsStated ==
    san_pc # "input" =>
        /\ \A i \in 1..Len(san_out) :
              ~IsControl(san_out[i]) /\ san_out[i] \notin ILLEGAL
        /\ NonWhitespace(san_out) = NonWhitespace(Underscored(san_in))
        /\ (\A i \in 1..Len(san_in) : IsControl(san_in[i]) \/ san_in[i] \in ILLEGAL)
              => san_out = [i \in 1..Len(san_in) |-> Underscore]

\* C4 amended: the result holds no illegal and no control character, and
\* each illegal or control character of the NFC-normalized input stands in
\* the result as one underscore; an input of only illegal and control
\* characters gives that many underscores.
C4_NoIllegalReplaced ==
    san_pc # "input" =>
        /\ \A i \in 1..Len(san_out) :
              ~IsControl(san_out[i]) /\ san_out[i] \notin ILLEGAL
        /\ NonWhitespace(san_out) = NonWhitespace(Underscored(Nfc(san_in)))
        /\ (\A i \in 1..Len(san_in) : IsControl(san_in[i]) \/ san_in[i] \in ILLEGAL)
              => san_out = [i \in 1..Len(san_in) |-> Underscore]

\* C4 witness: an input with a control and an illegal character was
\* sanitized and both stand in the result as underscores.
C4_Witness ==
    /\ san_pc = "sanitized"
    /\ \E i, j \in 1..Len(san_in) :
          /\ IsControl(san_in[i]) /\ san_in[j] \in ILLEGAL
          /\ Count(san_in, Underscore) = 0
    /\ Count(san_out, Underscore) = 2

\* C5 as stated: no leading, trailing or doubled whitespace in the result,
\* and every maximal whitespace run of the input is one space of the result.
C5_AsStated ==
    san_pc # "input" =>
        /\ NoEdgeOrDoubleWhitespace(san_out)
        /\ Count(san_out, Space) = WhitespaceRuns(san_in)

\* C5 amended: no leading, trailing or doubled whitespace in the result; the
\* result is the words of the input (NFC-normalized, control and illegal
\* characters replaced by underscores, so that control whitespace such as
\* TAB counts as a word character) joined by single spaces: leading and
\* trailing runs vanish, every other run of whitespace is one space.
C5_WhitespaceCollapsed ==
    san_pc # "input" =>
        /\ NoEdgeOrDoubleWhitespace(san_out)
        /\ Words(san_out) = Words(Underscored(Nfc(san_in)))

\* C5 witness: an input with a whitespace run of two between two words was
\* sanitized to the two words and one space.
C5_Witness ==
    /\ san_pc = "sanitized"
    /\ Len(san_in) = 4
    /\ IsWhitespace(san_in[2]) /\ ~IsControl(san_in[2])
    /\ IsWhitespace(san_in[3]) /\ ~IsControl(san_in[3])
    /\ san_in[2] # san_in[3]
    /\ Len(san_out) = 3
    /\ san_out[2] = Space

\* ------------------------------------------------------ claims: the planner
RootName == plan_skel.root[1]

\* C1 as stated: the root directory name is at most 255 bytes long for
\* every title and every book id.
C1_AsStated ==
    plan_pc = "planned" => Len(RootName) <= 255

\* C1 amended: the root directory name is at most 255 bytes long for every
\* title and every book id of at most 252 bytes.
C1_RootNameBounded ==
    (plan_pc = "planned" /\ Len(plan_bookid) <= 252) => Len(RootName) <= 255

\* C1 witness: a title whose sanitized form alone is longer than 255 bytes
\* was planned with a book id of 13 bytes, and the name fills the 255 bytes.
C1_Witness ==
    /\ plan_pc = "planned"
    /\ Len(plan_title) > 255
    /\ Len(plan_bookid) = 13
    /\ Len(RootName) = 255

\* C2: truncate_utf8_by_byte(s, n) is the longest prefix of s of at most n
\* bytes that ends on a code-point boundary (empty when that boundary is 0),
\* and a 300-byte ASCII title planned with book id "42" keeps its first 250
\* bytes, in a root name of 255 bytes.
C2_LongestPrefix ==
    /\ plan_pc = "truncated" =>
          LET s == Encode(plan_title)
              offs == Offsets(plan_title)
          IN  /\ Len(trunc_out) <= trunc_max
              /\ Len(trunc_out) <= Len(s)
              /\ trunc_out = SubSeq(s, 1, Len(trunc_out))
              /\ Len(trunc_out) \in offs
              /\ \A b \in offs : b <= trunc_max => b <= Len(trunc_out)
    /\ (/\ plan_pc = "planned"
        /\ plan_title = [i \in 1..300 |-> 97]
        /\ plan_bookid = <<52, 50>>) =>
          /\ RootName = [i \in 1..250 |-> 97] \o <<32, 40, 52, 50, 41>>
          /\ Len(RootName) = 255

\* C2 witness: the budget fell inside a multi-byte character of a string
\* longer than the budget, and the truncation backed up to a shorter prefix.
C2_Witness ==
    /\ plan_pc = "truncated"
    /\ Len(Encode(plan_title)) > trunc_max
    /\ trunc_max \notin Offsets(plan_title)
    /\ Len(trunc_out) < trunc_max
    /\ Len(trunc_out) > 0

\* --------------------------------------------------------- claims: main
InSeq(x, seq) == \E i \in 1..Len(seq) : seq[i] = x

IsPrefixOf(a, b) == Len(a) <= Len(b) /\ a = SubSeq(b, 1, Len(a))

\* The ASCII codes of `application/epub+zip`.
ApplicationEpubZip ==
    <<97, 112, 112, 108, 105, 99, 97, 116, 105, 111, 110,
      47,
      101, 112, 117, 98,
      43,
      122, 105, 112>>

MimetypePath == Append(skeleton.root, MIMETYPE_NAME)

ContainerPath == Append(skeleton.meta_inf, CONTAINER_NAME)

HasContent(path, contents) ==
    path \in DOMAIN disk.files /\ disk.files[path] = contents

\* C6 as stated: once write_mimetype has succeeded, root/mimetype holds
\* exactly the ASCII bytes of `application/epub+zip`, 21 bytes, and no
\* trailing newline.
C6_AsStated ==
    InSeq("write_mimetype", applied) =>
        /\ HasContent(MimetypePath, ApplicationEpubZip)
        /\ Len(disk.files[MimetypePath]) = 21
        /\ disk.files[MimetypePath][Len(disk.files[MimetypePath])] # 10

\* C6 amended: once write_mimetype has succeeded, root/mimetype holds
\* exactly the ASCII bytes of `application/epub+zip`, 20 bytes, and no
\* trailing newline.
C6_MimetypeBytes ==
    InSeq("write_mimetype", applied) =>
        /\ HasContent(MimetypePath, ApplicationEpubZip)
        /\ Len(disk.files[MimetypePath]) = 20
        /\ disk.files[MimetypePath][Len(disk.files[MimetypePath])] # 10

\* C6 witness: write_mimetype has succeeded, the later write of
\* container.xml too, and the mimetype file is on disk.
C6_Witness ==
    /\ InSeq("write_mimetype", applied)
    /\ InSeq("write_container_xml", applied)
    /\ MimetypePath \in DOMAIN disk.files
    /\ Len(skeleton.root[1]) > 0

\* The four steps in the order the claim gives them, and the path of each.
FourSteps == <<"create_oebps", "create_meta_inf", "write_mimetype", "write_container_xml">>

FourPaths == <<skeleton.oebps, skeleton.meta_inf, MimetypePath, ContainerPath>>

\* C7: the steps applied to disk are always a prefix of [create OEBPS,
\* create META-INF, write mimetype, write container.xml]; the disk holds the
\* effect of exactly the applied steps (none is rolled back, none after a
\* failure is performed); a failed step ends the operation with an error
\* naming that step's path.
C7_StrictSequence ==
    /\ IsPrefixOf(applied, FourSteps)
    /\ skeleton = NoSkeleton => applied = <<>>
    /\ skeleton # NoSkeleton =>
          /\ (skeleton.oebps \in disk.dirs) <=> InSeq("create_oebps", applied)
          /\ (skeleton.meta_inf \in disk.dirs) <=> InSeq("create_meta_inf", applied)
          /\ HasContent(MimetypePath, ApplicationEpubZip)
                <=> InSeq("write_mimetype", applied)
          /\ HasContent(ContainerPath, CONTAINER_XML)
                <=> InSeq("write_container_xml", applied)
    /\ (InSeq("materialize", stages) /\ ~outcome[Len(outcome)]) =>
          /\ Len(applied) < 4
          /\ err.path = FourPaths[Len(applied) + 1]
          /\ err.context = (IF Len(applied) < 2 THEN "Creating directory" ELSE "Writing file")
          /\ exited /\ exit_code = 1
    /\ (InSeq("materialize", stages) /\ outcome[Len(outcome)]) =>
          (applied = FourSteps /\ err = NoError)

\* C7 witness: the write of mimetype failed after both directories were
\* created; they are still on disk and the error names root/mimetype.
C7_Witness ==
    /\ exited /\ exit_code = 1
    /\ applied = <<"create_oebps", "create_meta_inf">>
    /\ err.path = MimetypePath
    /\ skeleton.oebps \in disk.dirs
    /\ skeleton.meta_inf \in disk.dirs
    /\ MimetypePath \in DOMAIN disk.files

\* The stages of main in the order the claim gives them.
EightStages ==
    <<"cookie_check", "load", "non_empty", "client", "login", "fetch", "plan",
      "materialize">>

\* Nothing of a skeleton is on disk: at most the Books directory itself and
\* the run's log file.
SkeletonUntouched ==
    /\ disk.dirs \subseteq {<<>>}
    /\ DOMAIN disk.files \subseteq {<<LogName(bookid)>>}

\* C8 as stated: the stages of main run in the fixed order; a failed stage
\* is the last one run and ends the process with exit code 1; nothing of the
\* skeleton is on disk unless the login was confirmed and the metadata
\* fetched; exit code 0 is reached only after every stage has succeeded.
C8_AsStated ==
    /\ IsPrefixOf(stages, EightStages)
    /\ Len(outcome) = Len(stages)
    /\ \A i \in 1..Len(outcome) :
          ~outcome[i] => (i = Len(stages) /\ exited /\ exit_code = 1)
    /\ ~SkeletonUntouched =>
          /\ profile_resp.sent /\ profile_resp.status = 200
          /\ bookinfo.ok
          /\ Len(stages) >= 7
    /\ (exited /\ exit_code = 0) =>
          /\ stages = EightStages
          /\ \A i \in 1..Len(outcome) : outcome[i]

\* C8 amended: the stages of main run in the fixed order; a failed stage is
\* the last one run and ends the process with exit code 1, and exit code 1
\* comes from a failed stage only; nothing of the skeleton is on disk unless
\* the login was confirmed and the metadata fetched; a run whose command
\* line names a book reaches exit code 0 only after every stage has
\* succeeded, while --help and --version end with exit code 0 and a usage
\* error or a log file that cannot be created end with another code, all of
\* them before the first stage.
C8_StagesInOrder ==
    /\ IsPrefixOf(stages, EightStages)
    /\ Len(outcome) = Len(stages)
    /\ \A i \in 1..Len(outcome) :
          ~outcome[i] => (i = Len(stages) /\ exited /\ exit_code = 1)
    /\ ~SkeletonUntouched =>
          /\ profile_resp.sent /\ profile_resp.status = 200
          /\ bookinfo.ok
          /\ stages = SubSeq(EightStages, 1, Len(stages))
          /\ Len(stages) >= 7
    /\ (exited /\ exit_code = 1) => (Len(outcome) > 0 /\ ~outcome[Len(outcome)])
    /\ (exited /\ exit_code = 0 /\ bookid # <<>>) =>
          /\ stages = EightStages
          /\ \A i \in 1..Len(outcome) : outcome[i]
          /\ cookie_file.state = "json" /\ cookie_file.shape # "other"
          /\ DOMAIN store # {}
          /\ profile_resp.sent /\ profile_resp.status = 200
          /\ bookinfo.ok
          /\ applied = FourSteps
    /\ (exited /\ (bookid = <<>> \/ exit_code \notin {0, 1})) =>
          /\ stages = <<>>
          /\ exit_code \in {0, 2, 101}
          /\ bookid = <<>> <=> exit_code \in {0, 2}
          /\ SkeletonUntouched

\* C8 witness: the login check answered "not logged in"; the process ended
\* with exit code 1 after five stages and the disk is untouched.
C8_Witness ==
    /\ exited /\ exit_code = 1
    /\ stages = SubSeq(EightStages, 1, 5)
    /\ login = "Ok(false)"
    /\ disk = EmptyDisk

\* C9 as documented: HTTP 200 gives Ok(true), a redirect or 401/403 gives
\* Ok(false), and Err is kept for a network failure or any other status.
C9_AsDocumented ==
    InSeq("login", stages) =>
        /\ (profile_resp.sent /\ profile_resp.status = 200) => login = "Ok(true)"
        /\ (/\ profile_resp.sent
            /\ \/ profile_resp.status \in 300..399
               \/ profile_resp.status \in {401, 403}) => login = "Ok(false)"
        /\ login = "Err" =>
              \/ ~profile_resp.sent
              \/ /\ profile_resp.status # 200
                 /\ profile_resp.status \notin 300..399
                 /\ profile_resp.status \notin {401, 403}

\* C10: a store loaded from a list holds exactly the distinct names of the
\* list, each with the value of the last entry carrying that name, and its
\* len is the number of distinct names.
C10_LastEntryWins ==
    (/\ cookie_file.state = "json" /\ cookie_file.shape = "list"
     /\ InSeq("load", stages)) =>
        LET list == cookie_file.list
            names == {list[i].name : i \in 1..Len(list)}
            LastOf(n) == CHOOSE i \in 1..Len(list) :
                            /\ list[i].name = n
                            /\ \A j \in (i + 1)..Len(list) : list[j].name # n
        IN  /\ outcome[2]
            /\ DOMAIN store = names
            /\ \A n \in names : store[n] = list[LastOf(n)].value
            /\ Cardinality(DOMAIN store) = Cardinality(names)

\* C10 witness: a list naming one cookie twice, with different values, was
\* loaded into a store of one cookie.
C10_Witness ==
    /\ cookie_file.shape = "list"
    /\ InSeq("load", stages)
    /\ Len(cookie_file.list) = 2
    /\ cookie_file.list[1].name = cookie_file.list[2].name
    /\ cookie_file.list[1].value # cookie_file.list[2].value
    /\ DOMAIN store = {cookie_file.list[1].name}

\* --------------------------------------------------- claims: the Cookie header
\* HttpClient::from_store has returned Ok: the client holds a header.
ClientBuilt == \E i \in 1..Len(stages) : stages[i] = "client" /\ outcome[i]

\* The names of a store, each once, every one below the next.
NamesAscending(map) ==
    CHOOSE s \in [1..Cardinality(DOMAIN map) -> DOMAIN map] :
        /\ {s[i] : i \in DOMAIN s} = DOMAIN map
        /\ \A i, j \in DOMAIN s : i < j => StrLess(s[i], s[j])

\* name=value for each name in ascending order, with "; " between two pairs.
JoinedPairs(map) ==
    LET s == NamesAscending(map)
        J[i \in 0..Len(s)] ==
            IF i = 0 THEN <<>>
            ELSE (IF i = 1 THEN <<>> ELSE J[i - 1] \o <<59, 32>>)
                     \o s[i] \o <<61>> \o map[s[i]]
    IN  J[Len(s)]

\* C11: the Cookie header of a built client is the name=value pairs of the
\* store in ascending order of name joined by "; ": one separator fewer than
\* there are cookies, none at the start and none at the end, whichever shape
\* and order the file had.
C11_SortedHeader ==
    ClientBuilt =>
        /\ cookie_header = JoinedPairs(store)
        /\ cookie_header = to_header_value(load_from(cookie_file).map)
        /\ Len(SelectSeq(cookie_header, LAMBDA b : b = 59)) = Cardinality(DOMAIN store) - 1
        /\ cookie_header[1] \notin {59, 32}
        /\ cookie_header[Len(cookie_header)] \notin {59, 32}

\* C11 witness: a list giving "ab" before "B" was loaded and the client
\* built; the header reads "B=1; ab=2".
C11_Witness ==
    /\ ClientBuilt
    /\ cookie_file.shape = "list"
    /\ Len(cookie_file.list) = 2
    /\ cookie_file.list[1].name = <<97, 98>>
    /\ cookie_file.list[2].name = <<66>>
    /\ cookie_header = <<66, 61, 49, 59, 32, 97, 98, 61, 50>>

\* ------------------------------------------------------- claims: the re-run
\* The disk after one run of the four steps on an empty disk, none failing.
UninterruptedRun(skel) ==
    LET d1 == create_dir_all(EmptyDisk, skel.oebps, Len(skel.oebps) + 1).disk
        d2 == create_dir_all(d1, skel.meta_inf, Len(skel.meta_inf) + 1).disk
        d3 == fs_write(d2, Append(skel.root, MIMETYPE_NAME), MIMETYPE_BYTES,
                       AllWritten(MIMETYPE_BYTES)).disk
    IN  fs_write(d3, Append(skel.meta_inf, CONTAINER_NAME), CONTAINER_XML,
                 AllWritten(CONTAINER_XML)).disk

\* What a disk holds at the skeleton's root and below it.
SkeletonTree(d, skel) ==
    LET Below(p) == IsPrefixOf(skel.root, p)
        paths == {p \in DOMAIN d.files : Below(p)}
    IN  [dirs  |-> {p \in d.dirs : Below(p)},
         files |-> [p \in paths |-> d.files[p]]]

\* The second run has gone through the skeleton's creation.
RerunMaterialized == fs_sound /\ stages = EightStages

\* C12: in a second run of the program on a sound filesystem, whatever the
\* first run left on disk (nothing of the skeleton, some of its directories,
\* a file holding any part of its bytes, or the whole tree), the skeleton's
\* creation never fails; it performs all four steps and leaves at the
\* skeleton's root exactly the tree a single uninterrupted run leaves; what
\* lies beside that tree stays as it was, but for the Books directory and
\* the run's log file.
C12_RerunConverges ==
    /\ fs_sound => \A i \in 1..Len(stages) : stages[i] = "materialize" => outcome[i]
    /\ RerunMaterialized =>
          /\ applied = FourSteps
          /\ err = NoError
          /\ SkeletonTree(disk, skeleton) = SkeletonTree(UninterruptedRun(skeleton), skeleton)
          /\ disk.dirs = left_behind.dirs \cup UninterruptedRun(skeleton).dirs
          /\ DOMAIN disk.files \subseteq
                DOMAIN left_behind.files \cup {MimetypePath, ContainerPath, <<LogName(bookid)>>}
          /\ \A p \in DOMAIN left_behind.files :
                (p \notin {MimetypePath, ContainerPath, <<LogName(bookid)>>}) =>
                    (p \in DOMAIN disk.files /\ disk.files[p] = left_behind.files[p])
          /\ (exited => exit_code = 0)

\* C12 witness: the first run left both directories and a mimetype file
\* holding the first ten of its bytes; the second run, started in the Books
\* directory, planned the same skeleton, went through all four steps and
\* ended with exit code 0, and both files are whole on disk.
C12_Witness ==
    /\ RerunMaterialized
    /\ exited /\ exit_code = 0
    /\ cwd = "books"
    /\ MimetypePath \in DOMAIN left_behind.files
    /\ left_behind.files[MimetypePath] = SubSeq(MIMETYPE_BYTES, 1, 10)
    /\ ContainerPath \notin DOMAIN left_behind.files
    /\ skeleton.oebps \in left_behind.dirs
    /\ HasContent(MimetypePath, ApplicationEpubZip)
    /\ HasContent(ContainerPath, CONTAINER_XML)

====
